---- MODULE Spec2Model ----
(***************************************************************************)
(* Z_Performance: the browser-side performance-test pipeline.              *)
(*                                                                         *)
(*   services/performanceService.ts (the revision with the fallback chain  *)
(*   is src/unnamed/part_001, the earlier one is                           *)
(*   src/src/services/performanceService.ts), components/TestForm.tsx and  *)
(*   pages/Index.tsx (src/unnamed/part_002).                               *)
(*                                                                         *)
(* Numbers.  JavaScript numbers are modelled as fixed-point integers: the   *)
(* model value v stands for v / SCALE, with SCALE = 200, a resolution of   *)
(* 0.005.  That is fine enough for toFixed(1) and toFixed(2) to round the  *)
(* truncated value exactly as they round the true one, and coarse enough   *)
(* for 10,000,000 ms to fit TLC's 32-bit integers.  Quotients truncate.    *)
(* An out-of-range array read (JavaScript undefined, NaN after arithmetic) *)
(* is the value Undefined, which no measured or generated number equals.   *)
(***************************************************************************)
EXTENDS Integers, Sequences, FiniteSets, TLC

VARIABLES
    \* ---- one run of runPerformanceTest (Spec)
    config,           \* the submitted TestConfig: [url, users, duration]
    pc,               \* where the run is suspended (the await it is waiting on)
    i,                \* the loop index of the probe loop in progress
    armed,            \* the abort timers set with setTimeout and not yet cleared or fired
    testResults,      \* the probe's testResults object
    metrics,          \* the PerformanceMetrics the promise resolved with, NoMetrics before
    stages,           \* history: the stage events of the run, in order
    base,             \* environment: how the target answers by default in this run
    faults,           \* environment: requests so far that were answered otherwise
    auditData,        \* history: the body response.json() resolved with, NoAuditData before
    revision,         \* which of the repository's two copies of the service runs
    \* ---- distributeDataPoints harness (SpecResample)
    ddpData,          \* the sample sequence handed to distributeDataPoints
    ddpTargetPoints,  \* its targetPoints argument
    ddpResult,        \* the returned array, <<>> before the call
    ddpPc,            \* "input" before the call, "returned" after it
    \* ---- the form, TestForm.tsx (SpecForm, SpecPage)
    url,              \* the text of the URL field
    urlError,         \* the message under the URL field, Null without one
    isApiEndpointState, \* the form's isApiEndpoint flag
    duration,         \* the duration slider, in seconds
    \* ---- the page, Index.tsx (SpecForm, SpecPage)
    testStarted,
    isLoading,
    testConfig,       \* the config of the latest submitted run, NoConfig before
    timer,            \* the interval id held in state, 0 for null
    timeRemaining,    \* seconds left on the countdown, NoTime for null
    performanceMetrics, \* the run whose metrics are stored, 0 for undefined
    testError,        \* the message of the failed run, Null without one
    runs,             \* the calls of runPerformanceTest so far: config and progress
    intervals,        \* the ids of the setInterval timers not yet cleared
    event,            \* history: the handler that ran last and whether it called onStartTest
    \* ---- one call of a pure function (SpecScores, SpecTally)
    fnCall,           \* the function called and its arguments, name "idle" without a call
    fnResult          \* what it returned, NoResult before

ddpVars == <<ddpData, ddpTargetPoints, ddpResult, ddpPc>>

formVars == <<url, urlError, isApiEndpointState, duration>>

pageVars ==
    <<testStarted, isLoading, testConfig, timer, timeRemaining,
      performanceMetrics, testError, runs, intervals>>

uiVars == <<formVars, pageVars, event>>

runVars ==
    <<config, pc, i, armed, testResults, metrics, stages, base, faults, auditData,
      revision>>

fnVars == <<fnCall, fnResult>>

vars == <<runVars, ddpVars, uiVars, fnVars>>

----------------------------------------------------------------------------
(* Fixed-point arithmetic *)

SCALE == 200

Undefined == 0 - 999999999

Min(a, b) == IF a <= b THEN a ELSE b

Max(a, b) == IF a >= b THEN a ELSE b

\* reduce((a, b) => a + b, 0)
RECURSIVE SumSeq(_)
SumSeq(s) == IF s = <<>> THEN 0 ELSE Head(s) + SumSeq(Tail(s))

\* data[index] on a JavaScript array (0-based): undefined out of range.
At(data, index) ==
    IF index >= 0 /\ index < Len(data) THEN data[index + 1] ELSE Undefined

\* a * wa + b * wb over den, NaN as soon as one operand is undefined.
Blend(a, wa, b, wb, den) ==
    IF a = Undefined \/ b = Undefined THEN Undefined
    ELSE (a * wa + b * wb) \div den

----------------------------------------------------------------------------
(* Strings are sequences of one-character strings. *)

\* ""
Str_empty ==
    <<>>

\* "not a url"
Str_notAUrl ==
    <<"n", "o", "t", " ", "a", " ", "u", "r", "l">>

\* "example.com"
Str_noScheme ==
    <<"e", "x", "a", "m", "p", "l", "e", ".", "c", "o", "m">>

\* "http://"
Str_httpOnly ==
    <<"h", "t", "t", "p", ":", "/", "/">>

\* "ftp://example.com"
Str_ftp ==
    <<"f", "t", "p", ":", "/", "/", "e", "x", "a", "m", "p", "l", "e",
      ".", "c", "o", "m">>

\* "httpx://example.com"
Str_httpx ==
    <<"h", "t", "t", "p", "x", ":", "/", "/", "e", "x", "a", "m", "p",
      "l", "e", ".", "c", "o", "m">>

\* "HTTP://example.com"
Str_upperScheme ==
    <<"H", "T", "T", "P", ":", "/", "/", "e", "x", "a", "m", "p", "l",
      "e", ".", "c", "o", "m">>

\* "http://example.com"
Str_site ==
    <<"h", "t", "t", "p", ":", "/", "/", "e", "x", "a", "m", "p", "l",
      "e", ".", "c", "o", "m">>

\* "https://example.com"
Str_siteHttps ==
    <<"h", "t", "t", "p", "s", ":", "/", "/", "e", "x", "a", "m", "p",
      "l", "e", ".", "c", "o", "m">>

\* "https://api.example.com/v1/users"
Str_apiSubdomain ==
    <<"h", "t", "t", "p", "s", ":", "/", "/", "a", "p", "i", ".", "e",
      "x", "a", "m", "p", "l", "e", ".", "c", "o", "m", "/", "v", "1",
      "/", "u", "s", "e", "r", "s">>

\* "https://example.com/api/users"
Str_apiPath ==
    <<"h", "t", "t", "p", "s", ":", "/", "/", "e", "x", "a", "m", "p",
      "l", "e", ".", "c", "o", "m", "/", "a", "p", "i", "/", "u", "s",
      "e", "r", "s">>

\* "https://example.com/API/users"
Str_apiPathUpper ==
    <<"h", "t", "t", "p", "s", ":", "/", "/", "e", "x", "a", "m", "p",
      "l", "e", ".", "c", "o", "m", "/", "A", "P", "I", "/", "u", "s",
      "e", "r", "s">>

\* "https://example.com/data.json"
Str_json ==
    <<"h", "t", "t", "p", "s", ":", "/", "/", "e", "x", "a", "m", "p",
      "l", "e", ".", "c", "o", "m", "/", "d", "a", "t", "a", ".", "j",
      "s", "o", "n">>

\* "https://example.com/graphql"
Str_graphql ==
    <<"h", "t", "t", "p", "s", ":", "/", "/", "e", "x", "a", "m", "p",
      "l", "e", ".", "c", "o", "m", "/", "g", "r", "a", "p", "h", "q", "l">>

\* "https://example.com/Endpoint"
Str_endpointUpper ==
    <<"h", "t", "t", "p", "s", ":", "/", "/", "e", "x", "a", "m", "p",
      "l", "e", ".", "c", "o", "m", "/", "E", "n", "d", "p", "o", "i",
      "n", "t">>

\* "https://example.com/service"
Str_service ==
    <<"h", "t", "t", "p", "s", ":", "/", "/", "e", "x", "a", "m", "p",
      "l", "e", ".", "c", "o", "m", "/", "s", "e", "r", "v", "i", "c", "e">>

\* "/api/"
Sub_api ==
    <<"/", "a", "p", "i", "/">>

\* ".json"
Sub_json ==
    <<".", "j", "s", "o", "n">>

\* "graphql"
Sub_graphql ==
    <<"g", "r", "a", "p", "h", "q", "l">>

\* "endpoint"
Sub_endpoint ==
    <<"e", "n", "d", "p", "o", "i", "n", "t">>

\* "service"
Sub_service ==
    <<"s", "e", "r", "v", "i", "c", "e">>

\* "http"
Sub_http ==
    <<"h", "t", "t", "p">>

\* String.prototype.includes and startsWith
Includes(s, sub) ==
    \E k \in 0..(Len(s) - Len(sub)) : SubSeq(s, k + 1, k + Len(sub)) = sub

StartsWith(s, prefix) ==
    Len(s) >= Len(prefix) /\ SubSeq(s, 1, Len(prefix)) = prefix

UpperCase ==
    <<"A", "B", "C", "D", "E", "F", "G", "H", "I", "J", "K", "L", "M",
      "N", "O", "P", "Q", "R", "S", "T", "U", "V", "W", "X", "Y", "Z">>

LowerCase ==
    <<"a", "b", "c", "d", "e", "f", "g", "h", "i", "j", "k", "l", "m",
      "n", "o", "p", "q", "r", "s", "t", "u", "v", "w", "x", "y", "z">>

LowerChar(c) ==
    IF \E k \in 1..26 : UpperCase[k] = c
    THEN LowerCase[CHOOSE k \in 1..26 : UpperCase[k] = c]
    ELSE c

\* String.prototype.toLowerCase
ToLowerCase(s) == [k \in 1..Len(s) |-> LowerChar(s[k])]

----------------------------------------------------------------------------
(* distributeDataPoints, part_001 lines 505-534 *)

\* Array(targetPoints).fill(0)
ZeroFill(targetPoints) == [k \in 1..targetPoints |-> 0]

InterpolatePoint_NoBlend(data, targetPoints, ix) ==
    At(data, (ix * (Len(data) - 1)) \div (targetPoints - 1))

\* The interpolation loop body for loop index ix (0-based), lines 515-523:
\* position = (ix / (targetPoints - 1)) * lastIndex, index = floor(position),
\* fraction = position - index.  With num = ix * lastIndex and
\* den = targetPoints - 1: index = num \div den, fraction = (num % den) / den.
\* The branch is only entered with data.length < targetPoints, so
\* targetPoints >= 2 and den >= 1.
InterpolatePoint(data, targetPoints, ix) ==
    LET lastIndex == Len(data) - 1
        den == targetPoints - 1
        num == ix * lastIndex
        index == num \div den
        rem == num % den
    IN  IF index + 1 <= lastIndex
        THEN Blend(At(data, index), den - rem, At(data, index + 1), rem, den)
        ELSE At(data, lastIndex)

\* 2^k
RECURSIVE Pow2(_)
Pow2(k) == IF k = 0 THEN 1 ELSE 2 * Pow2(k - 1)

\* 2^k modulo n
RECURSIVE Pow2Mod(_, _)
Pow2Mod(k, n) == IF k = 0 THEN 1 % n ELSE (2 * Pow2Mod(k - 1, n)) % n

\* The e >= 1 with 2^-e <= ix / targetPoints < 2^(1-e), for 0 < ix < targetPoints
BinaryExponent(ix, targetPoints) ==
    CHOOSE e \in 1..20 :
        /\ ix * Pow2(e) >= targetPoints
        /\ ix * Pow2(e - 1) < targetPoints

\* The p with 2^p <= n < 2^(p+1), for n >= 1
Log2Floor(n) == CHOOSE p \in 0..20 : Pow2(p) <= n /\ n < Pow2(p + 1)

\* Math.floor((ix / targetPoints) * length) of line 528, as the two IEEE 754
\* double operations compute it.  The quotient ix / targetPoints is rounded
\* to 53 significant bits: with k = 52 + e it is (ix * 2^k - r) / (targetPoints
\* * 2^k) rounded to the nearest, r the remainder of ix * 2^k by
\* targetPoints.  When ix * length / targetPoints is not whole, the rounding
\* errors are far smaller than its distance to a whole number.  When it is
\* a whole number J and the quotient was rounded down (0 < 2r < targetPoints),
\* the exact product is J - r * length / (targetPoints * 2^k), and it rounds
\* back to J only if that deficit is at most half the spacing of the doubles
\* below J, which is 2^(p-52), or 2^(p-53) when J = 2^p: otherwise the floor
\* is J - 1.
SampleIndex(ix, targetPoints, length) ==
    LET J == (ix * length) \div targetPoints
        e == BinaryExponent(ix, targetPoints)
        r == (ix * Pow2Mod(52 + e, targetPoints)) % targetPoints
        p == Log2Floor(J)
    IN  IF ix = 0 \/ (ix * length) % targetPoints /= 0 THEN J
        ELSE IF r = 0 \/ 2 * r > targetPoints THEN J
        ELSE IF r * length * (IF J = Pow2(p) THEN 2 ELSE 1)
                    <= targetPoints * Pow2(e - 1 + p)
        THEN J
        ELSE J - 1

\* The sampling loop body, lines 528-529:
\* index = floor((ix / targetPoints) * data.length)
SamplePoint(data, targetPoints, ix) ==
    At(data, SampleIndex(ix, targetPoints, Len(data)))

\* Line 506: Array(targetPoints) throws a RangeError when targetPoints is
\* not a valid array length.
DistributeThrows(data, targetPoints) == Len(data) = 0 /\ targetPoints < 0

distributeDataPoints_NoSampling(data, targetPoints) ==
    IF Len(data) = 0 THEN ZeroFill(targetPoints)
    ELSE IF Len(data) >= targetPoints THEN data
    ELSE [k \in 1..targetPoints |-> InterpolatePoint(data, targetPoints, k - 1)]

distributeDataPoints_BlendPastEnd(data, targetPoints) ==
    IF Len(data) = 0 THEN ZeroFill(targetPoints)
    ELSE IF Len(data) = targetPoints THEN data
    ELSE IF Len(data) < targetPoints
    THEN [k \in 1..targetPoints |->
            LET den == targetPoints - 1
                num == (k - 1) * (Len(data) - 1)
            IN  Blend(At(data, num \div den), den - (num % den),
                      At(data, (num \div den) + 1), num % den, den)]
    ELSE [k \in 1..targetPoints |-> SamplePoint(data, targetPoints, k - 1)]

distributeDataPoints(data, targetPoints) ==
    IF Len(data) = 0 THEN ZeroFill(targetPoints)
    ELSE IF Len(data) = targetPoints THEN data
    ELSE IF Len(data) < targetPoints
    THEN [k \in 1..targetPoints |-> InterpolatePoint(data, targetPoints, k - 1)]
    ELSE [k \in 1..targetPoints |-> SamplePoint(data, targetPoints, k - 1)]

----------------------------------------------------------------------------
(* Number formatting and rounding *)

\* Math.round(x): floor(x + 0.5), as a fixed-point whole number.
Round(v) == ((v + SCALE \div 2) \div SCALE) * SCALE

\* Math.floor(x) as a plain integer.
Floor(v) == v \div SCALE

\* x.toFixed(2) for x >= 0: the decimal string, kept as its number of
\* hundredths (and -toFixed(-x) below zero).
RECURSIVE ToFixed2(_)
ToFixed2(v) ==
    IF v < 0 THEN 0 - ToFixed2(0 - v)
    ELSE (v + SCALE \div 200) \div (SCALE \div 100)

\* Number(x.toFixed(1)) for x >= 0: x rounded to one decimal, as a number.
NumberToFixed1(v) == ((v + SCALE \div 20) \div (SCALE \div 10)) * (SCALE \div 10)

\* reduce((a, b) => a + b, 0) / length
Average(s) == SumSeq(s) \div Len(s)

\* The sum of the values of an object's entries.
RECURSIVE SumValues(_)
SumValues(f) ==
    IF DOMAIN f = {} THEN 0
    ELSE LET k == CHOOSE x \in DOMAIN f : TRUE
         IN  f[k] + SumValues([x \in DOMAIN f \ {k} |-> f[x]])

----------------------------------------------------------------------------
(* Math.random(): draw number n of the stream with the given seed, a value *)
(* of [0, 1).                                                              *)

RandomDraws == <<0, SCALE \div 2, SCALE - 1>>

MaxSeed == 1

Seeds == 0..MaxSeed

Random(seed, n) == RandomDraws[((seed + n) % Len(RandomDraws)) + 1]

\* generateTimeSeriesData, part_001 lines 561-577
generateTimeSeriesData(points, minValue, maxValue, seed) ==
    [k \in 1..points |->
        LET b == minValue + ((maxValue - minValue) * (k - 1)) \div points
            jitter == ((maxValue - minValue) * 2 * (Random(seed, k - 1) - SCALE \div 2))
                          \div (10 * SCALE)
        IN  Max(0, b + jitter)]

\* generateTimeSeriesDataAroundValue, part_001 lines 539-556 (variability 0.2)
generateTimeSeriesDataAroundValue(points, value, seed) ==
    [k \in 1..points |->
        LET variation == (value * 2 * (Random(seed, k - 1) - SCALE \div 2))
                             \div (10 * SCALE)
            trended == value + (value * (k - 1)) \div (points * 10)
        IN  Max(0, trended + variation)]

----------------------------------------------------------------------------
(* The probe's testResults object and the metrics derived from it *)

EmptyObject == [k \in {} |-> 0]

EmptyResults ==
    [loadTimes |-> <<>>, latencies |-> <<>>, statusCodes |-> EmptyObject,
     errors |-> 0, totalRequests |-> 0]

NoMetrics ==
    [loadTime |-> <<>>, latency |-> <<>>, errorRate |-> <<>>,
     requestsPerSecond |-> <<>>, statusCodes |-> EmptyObject,
     performanceScores |-> [overall |-> 0, ttfb |-> 0, fcp |-> 0, lcp |-> 0, ttl |-> 0],
     summary |-> [avgLoadTime |-> 0, avgLatency |-> 0, peakRps |-> 0,
                  totalRequests |-> 0, errorRate |-> 0, successRate |-> 0]]

\* obj[key] = (obj[key] || 0) + 1
Increment(obj, key) ==
    [k \in DOMAIN obj \cup {key} |->
        IF k = key THEN (IF key \in DOMAIN obj THEN obj[key] ELSE 0) + 1
        ELSE obj[k]]

\* obj[key] = value
Assign(obj, key, value) ==
    [k \in DOMAIN obj \cup {key} |-> IF k = key THEN value ELSE obj[k]]

timePoints_Uncapped(seconds) == seconds

\* Math.min(duration, 20), lines 107, 254, 438
timePoints(seconds) == Min(seconds, 20)

\* Math.min(Math.max(users, 20), Math.ceil(duration * 2)), line 120; the
\* duration is a whole number of seconds, so the ceiling is duration * 2.
requestsToMake(users, seconds) == Min(Max(users, 20), seconds * 2)

\* Math.min(20, Math.ceil(duration / 2)), performanceService.ts line 100
requestsToMake_Older(seconds) == Min(20, (seconds + 1) \div 2)

\* The service is in the repository twice: the later copy is the one the
\* line numbers of this module refer to, the earlier one is
\* src/services/performanceService.ts.
Later == "later"

Earlier == "performanceService.ts"

\* The loop bound of runApiEndpointTest in the copy that runs
RequestsToMake ==
    IF revision = Earlier
    THEN requestsToMake_Older(config.duration)
    ELSE requestsToMake(config.users, config.duration)

\* errors / totalRequests * 100, or 0 without requests (lines 183-185, 356-358)
ErrorRate(tr) ==
    IF tr.totalRequests > 0
    THEN (tr.errors * 100 * SCALE) \div tr.totalRequests
    ELSE 0

\* Lines 188-191 and 361-364: each tally as a percentage with one decimal.
\* A division by a zero totalRequests gives NaN.
FormatStatusCodes(statusCodes, totalRequests) ==
    [k \in DOMAIN statusCodes |->
        IF totalRequests = 0 THEN Undefined
        ELSE NumberToFixed1((statusCodes[k] * 100 * SCALE) \div totalRequests)]

\* Lines 193-200: the "Other" bucket of runApiEndpointTest.
AddOther(formatted) ==
    LET totalPercentage == SumValues(formatted)
    IN  IF totalPercentage < 100 * SCALE /\ DOMAIN formatted /= {}
        THEN Assign(formatted, "Other", NumberToFixed1(100 * SCALE - totalPercentage))
        ELSE formatted

SubScore_Unclamped(value, divisor) == 100 * SCALE - value \div divisor

\* Math.min(100, Math.max(0, 100 - value / divisor))
SubScore(value, divisor) ==
    Min(100 * SCALE, Max(0, 100 * SCALE - value \div divisor))

ProbeTtfbDivisor == 10

ProbeFcpDivisor == 50

ProbeLcpDivisor == 100

ProbeTtlDivisor == 30

\* Lines 215-224 and 379-388: the scores of the two direct probes.
ProbeScores(avgLoadTime, avgLatency, errorRate) ==
    LET successRate == 100 * SCALE - errorRate
        responseTimeScore == Max(0, Min(100 * SCALE, 100 * SCALE - avgLoadTime \div 50))
    IN  [overall |-> Round((successRate * 7 + responseTimeScore * 3) \div 10),
         ttfb |-> SubScore(avgLatency, ProbeTtfbDivisor),
         fcp |-> SubScore(avgLoadTime, ProbeFcpDivisor),
         lcp |-> SubScore(avgLoadTime, ProbeLcpDivisor),
         ttl |-> SubScore(avgLoadTime, ProbeTtlDivisor)]

ProbeSummary_SuccessOfRequests(tr, avgLoadTime, avgLatency, rps, errorRate) ==
    [avgLoadTime |-> ToFixed2(avgLoadTime),
     avgLatency |-> ToFixed2(avgLatency),
     peakRps |-> ToFixed2(rps),
     totalRequests |-> tr.totalRequests,
     errorRate |-> ToFixed2(errorRate),
     successRate |-> ToFixed2((tr.totalRequests - tr.errors) * SCALE)]

\* Lines 227-234 and 391-398: the summary of the two direct probes
ProbeSummary(tr, avgLoadTime, avgLatency, rps, errorRate) ==
    [avgLoadTime |-> ToFixed2(avgLoadTime),
     avgLatency |-> ToFixed2(avgLatency),
     peakRps |-> ToFixed2(rps),
     totalRequests |-> tr.totalRequests,
     errorRate |-> ToFixed2(errorRate),
     successRate |-> ToFixed2(100 * SCALE - errorRate)]

\* generateSummaryData, MockData.ts lines 95-128: the summary of the
\* simulated results.  Math.random is drawn for loadTime, rps and errorRate
\* in this order.
generateSummaryData(testType, seconds, users, seed) ==
    LET r0 == Random(seed, 0)
        r1 == Random(seed, 1)
        r2 == Random(seed, 2)
        loadTime ==
            CASE testType = "load" -> r0 * 300 + 200 * SCALE
              [] testType = "endurance" -> r0 * 600 + 300 * SCALE
              [] testType = "stress" -> r0 * 1500 + 500 * SCALE
              [] OTHER -> r0 * 500 + 300 * SCALE
        rps ==
            CASE testType = "load" -> (users * SCALE) \div 10 + r1 * 10
              [] testType = "endurance" -> (users * SCALE) \div 10 + r1 * 5
              [] testType = "stress" -> (users * SCALE) \div 20 + r1 * 3
              [] OTHER -> (users * SCALE) \div 10
        errorRate ==
            CASE testType = "load" -> r2
              [] testType = "endurance" -> r2 * 3
              [] testType = "stress" -> r2 * 8
              [] OTHER -> r1 * 2
    IN  [avgLoadTime |-> ToFixed2(loadTime),
         avgLatency |-> ToFixed2((loadTime * 6) \div 10),
         peakRps |-> ToFixed2(rps),
         totalRequests |-> Floor(rps * seconds),
         errorRate |-> ToFixed2(errorRate),
         successRate |-> ToFixed2(100 * SCALE - errorRate)]

\* Lines 206-212, 226-246 (and 370-376, 390-410): the series, the summary
\* and the returned object, shared by the two direct probes.
ProbeMetrics(tr, cfg, avgLoadTime, avgLatency, statusCodesFormatted, seed) ==
    LET errorRate == ErrorRate(tr)
        rps == (tr.totalRequests * SCALE) \div cfg.duration
        points == timePoints(cfg.duration)
    IN  [loadTime |-> distributeDataPoints(tr.loadTimes, points),
         latency |-> distributeDataPoints(tr.latencies, points),
         errorRate |-> generateTimeSeriesData(points, (errorRate * 8) \div 10,
                                              (errorRate * 12) \div 10, seed + points),
         requestsPerSecond |-> generateTimeSeriesData(points, (rps * 8) \div 10,
                                                      (rps * 12) \div 10, seed),
         statusCodes |-> statusCodesFormatted,
         performanceScores |-> ProbeScores(avgLoadTime, avgLatency, errorRate),
         summary |-> ProbeSummary(tr, avgLoadTime, avgLatency, rps, errorRate)]

\* What can throw after the probe loops: the two distributeDataPoints calls.
ProbeMetricsThrows(tr, cfg) ==
    \/ DistributeThrows(tr.loadTimes, timePoints(cfg.duration))
    \/ DistributeThrows(tr.latencies, timePoints(cfg.duration))

\* runApiEndpointTest after its loop, lines 174-247
ApiMetrics(tr, cfg, seed) ==
    ProbeMetrics(tr, cfg,
        IF Len(tr.loadTimes) > 0 THEN Average(tr.loadTimes) ELSE 0,
        IF Len(tr.latencies) > 0 THEN Average(tr.latencies) ELSE 0,
        AddOther(FormatStatusCodes(tr.statusCodes, tr.totalRequests)),
        seed)

\* fallbackWebTest after its try block, lines 347-411: no "Other" bucket
FallbackMetrics(tr, cfg, seed) ==
    ProbeMetrics(tr, cfg,
        IF Len(tr.loadTimes) > 0 THEN Average(tr.loadTimes) ELSE 3000 * SCALE,
        IF Len(tr.latencies) > 0 THEN Average(tr.latencies) ELSE 800 * SCALE,
        FormatStatusCodes(tr.statusCodes, tr.totalRequests),
        seed)

\* The constants of lines 333-334 and 343-344
FallbackLoadTimes ==
    <<3000 * SCALE, 3200 * SCALE, 3100 * SCALE, 3400 * SCALE, 3300 * SCALE>>

FallbackLatencies ==
    <<800 * SCALE, 850 * SCALE, 820 * SCALE, 900 * SCALE, 880 * SCALE>>

----------------------------------------------------------------------------
(* processLighthouseData, part_001 lines 416-500.                          *)
(* The provider's JSON body is a record: error (data.error is set),        *)
(* lighthouseResult and audits (the objects are present), score            *)
(* (categories.performance.score, 0 when null or absent), the four         *)
(* numericValue fields in ms (0 when absent) and requestCount (the sum     *)
(* over resource-summary items, 0 when absent).                            *)

AuditTtfbDivisor == 100

AuditFcpDivisor == 500

AuditLcpDivisor == 2500

AuditTtlDivisor == 300

\* audits[name]?.numericValue || 0 with audits = lighthouseResult?.audits || {}
AuditValue(data, value) ==
    IF data.lighthouseResult /\ data.audits THEN value ELSE 0

\* Line 456: data.lighthouseResult?.audits['resource-summary'] reads a
\* property of undefined when lighthouseResult has no audits: a TypeError.
ProcessThrows(data) == data.lighthouseResult /\ ~data.audits

\* Lines 429-435 and 471-477: the scores of the page audit
AuditScores(data) ==
    [overall |-> Round((IF data.lighthouseResult THEN data.score ELSE 0) * 100),
     ttfb |-> SubScore(AuditValue(data, data.serverResponseTime), AuditTtfbDivisor),
     fcp |-> SubScore(AuditValue(data, data.firstContentfulPaint), AuditFcpDivisor),
     lcp |-> SubScore(AuditValue(data, data.largestContentfulPaint), AuditLcpDivisor),
     ttl |-> SubScore(AuditValue(data, data.totalBlockingTime), AuditTtlDivisor)]

processLighthouseData(data, cfg, seed) ==
    LET ttfb == AuditValue(data, data.serverResponseTime)
        fcp == AuditValue(data, data.firstContentfulPaint)
        lcp == AuditValue(data, data.largestContentfulPaint)
        totalBlockingTime == AuditValue(data, data.totalBlockingTime)
        overallScore == Round((IF data.lighthouseResult THEN data.score ELSE 0) * 100)
        points == timePoints(cfg.duration)
        loadTimeBase == IF lcp /= 0 THEN lcp ELSE 3000 * SCALE
        latencyBase == IF ttfb /= 0 THEN ttfb ELSE 800 * SCALE
        estimatedErrorRate == Max(0, (100 * SCALE - overallScore) \div 20)
        requestCount == AuditValue(data, data.requestCount)
        resourceCount == IF requestCount /= 0 THEN requestCount ELSE 10
        lcpSeconds == IF lcp \div 1000 /= 0 THEN lcp \div 1000 ELSE SCALE
        estimatedRps == (resourceCount * SCALE * SCALE) \div lcpSeconds
    IN  [loadTime |-> generateTimeSeriesDataAroundValue(points, loadTimeBase, seed),
         latency |-> generateTimeSeriesDataAroundValue(points, latencyBase, seed + points),
         errorRate |-> generateTimeSeriesDataAroundValue(points, estimatedErrorRate,
                                                         seed + 2 * points),
         requestsPerSecond |-> generateTimeSeriesDataAroundValue(points, estimatedRps,
                                                                 seed + 3 * points),
         statusCodes |->
             [k \in {"200", "301/302", "404", "500", "Other"} |->
                 CASE k = "200" -> Max(0, 100 * SCALE - estimatedErrorRate - 5 * SCALE)
                   [] k = "301/302" -> 3 * SCALE
                   [] k = "404" -> estimatedErrorRate \div 3
                   [] k = "500" -> (estimatedErrorRate * 2) \div 3
                   [] k = "Other" -> 2 * SCALE],
         performanceScores |-> AuditScores(data),
         summary |-> [avgLoadTime |-> ToFixed2(lcp \div 1000),
                      avgLatency |-> ToFixed2(ttfb \div 1000),
                      peakRps |-> ToFixed2(estimatedRps),
                      totalRequests |-> Floor(estimatedRps * cfg.duration),
                      errorRate |-> ToFixed2(estimatedErrorRate),
                      successRate |-> ToFixed2(100 * SCALE - estimatedErrorRate)]]

----------------------------------------------------------------------------
(* The collaborators and the submitted configurations of Spec *)

\* How the target answers one fetch: a response with a status after ms
\* milliseconds, or a rejection (network error, CORS refusal).  An abort by
\* the timeout timer is the separate step of the ...TimesOut actions.
FailOutcome == [kind |-> "error", status |-> 0, ms |-> 0]

ResponseOutcomes ==
    {[kind |-> "response", status |-> 200, ms |-> 120],
     [kind |-> "response", status |-> 500, ms |-> 2400]}

Outcomes == ResponseOutcomes \cup {FailOutcome}

\* At most MaxFaults requests of a run are answered otherwise than by the
\* target's default answer of that run.
MaxFaults == 1

Allowed(o) == o = base \/ faults < MaxFaults

Spend(o) == IF o = base THEN faults ELSE faults + 1

\* The bodies response.json() of the audit provider resolves with.
AuditBody(error, lighthouseResult, audits, score, ttfb, fcp, lcp, tbt, requestCount) ==
    [error |-> error, lighthouseResult |-> lighthouseResult, audits |-> audits,
     score |-> score, serverResponseTime |-> ttfb * SCALE,
     firstContentfulPaint |-> fcp * SCALE, largestContentfulPaint |-> lcp * SCALE,
     totalBlockingTime |-> tbt * SCALE, requestCount |-> requestCount]

\* No body has arrived.
NoAuditData == AuditBody(FALSE, FALSE, FALSE, 0, 0, 0, 0, 0, 0 - 1)

AuditBodies ==
    {AuditBody(TRUE, FALSE, FALSE, 0, 0, 0, 0, 0, 0),
     AuditBody(FALSE, FALSE, FALSE, 0, 0, 0, 0, 0, 0),
     AuditBody(FALSE, TRUE, FALSE, (92 * SCALE) \div 100, 0, 0, 0, 0, 0),
     AuditBody(FALSE, TRUE, TRUE, (92 * SCALE) \div 100, 600, 1800, 2500, 300, 40),
     AuditBody(FALSE, TRUE, TRUE, (35 * SCALE) \div 100, 0, 4200, 9000, 1500, 0),
     AuditBody(FALSE, TRUE, TRUE, 0, 0, 0, 0, 0, 0)}

RunTargets == {Str_siteHttps, Str_apiPath, Str_apiSubdomain}

RunUsers == {1, 25}

\* useState(50), TestForm.tsx line 26
DefaultUsers == 50

RunDurations == {5, 10, 30}

RunConfigs == [url : RunTargets, users : RunUsers, duration : RunDurations]

----------------------------------------------------------------------------
(* runPerformanceTest and the three sources, part_001 lines 30-411.        *)
(* Each action is the code that runs between two awaits.                   *)

\* Lines 37-40
isApiEndpoint(target) ==
    \/ Includes(target, Sub_api)
    \/ Includes(target, Sub_json)
    \/ Includes(target, Sub_graphql)
    \/ Includes(ToLowerCase(target), Sub_endpoint)

\* response.ok
Ok(status) == status >= 200 /\ status <= 299

\* Line 146: the latency sample of a successful API request
ApiLatency(loadTime) == (loadTime * 3) \div 10

\* Lines 281 and 307: the latency sample of a successful website request
WebLatency(loadTime) == (loadTime * 3) \div 10

\* Lines 140-156: a response to API request i, as the copy rev records it
ApiRecordResponseOf(rev, tr, o) ==
    [loadTimes |-> Append(tr.loadTimes, o.ms * SCALE),
     latencies |-> Append(tr.latencies,
                          IF rev = Earlier
                          THEN o.ms * SCALE    \* performanceService.ts line 123
                          ELSE ApiLatency(o.ms * SCALE)),
     totalRequests |-> tr.totalRequests + 1,
     statusCodes |-> Increment(tr.statusCodes, ToString(o.status)),
     errors |-> IF o.status >= 400 THEN tr.errors + 1 ELSE tr.errors]

ApiRecordResponse(tr, o) == ApiRecordResponseOf(revision, tr, o)

\* Lines 160-167: API request i threw or was aborted; the earlier copy
\* pushes no sample for it (performanceService.ts lines 138-142).
ApiRecordFailure(tr) ==
    [loadTimes |-> IF revision = Earlier THEN tr.loadTimes
                   ELSE Append(tr.loadTimes, 5000 * SCALE),
     latencies |-> IF revision = Earlier THEN tr.latencies
                   ELSE Append(tr.latencies, 1000 * SCALE),
     totalRequests |-> tr.totalRequests + 1,
     statusCodes |-> Increment(tr.statusCodes, "error"),
     errors |-> tr.errors + 1]

\* Lines 279-293: the response to the first website fetch
WebRecordFirst(tr, o) ==
    [loadTimes |-> Append(tr.loadTimes, o.ms * SCALE),
     latencies |-> Append(tr.latencies, WebLatency(o.ms * SCALE)),
     totalRequests |-> tr.totalRequests + 1,
     statusCodes |-> Assign(tr.statusCodes, ToString(o.status), 1),
     errors |-> IF ~Ok(o.status) THEN tr.errors + 1 ELSE tr.errors]

\* Lines 303-315: the response to a follow-up website fetch
WebRecordIteration(tr, o) ==
    [loadTimes |-> Append(tr.loadTimes, o.ms * SCALE),
     latencies |-> Append(tr.latencies, WebLatency(o.ms * SCALE)),
     totalRequests |-> tr.totalRequests + 1,
     statusCodes |-> Increment(tr.statusCodes, ToString(o.status)),
     errors |-> IF ~Ok(o.status) THEN tr.errors + 1 ELSE tr.errors]

WebRecordIterationError_NotCounted(tr) ==
    [tr EXCEPT !.errors = tr.errors + 1,
               !.statusCodes = Increment(tr.statusCodes, "error")]

\* Lines 318-323: a follow-up website fetch threw; no sample is pushed
WebRecordIterationError(tr) ==
    [tr EXCEPT !.errors = @ + 1,
               !.totalRequests = @ + 1,
               !.statusCodes = Increment(@, "error")]

\* Lines 325-334: the first website fetch threw or was aborted
WebRecordFirstFailure(tr) ==
    [loadTimes |-> FallbackLoadTimes,
     latencies |-> FallbackLatencies,
     totalRequests |-> tr.totalRequests + 1,
     statusCodes |-> Assign(tr.statusCodes, "error", 1),
     errors |-> tr.errors + 1]

\* In the continuations below, timers is the set of armed abort timers left
\* by the handler that ran (after its clearTimeout).

\* The promise of runPerformanceTest resolves with m.
Resolve(m, tr, timers) ==
    /\ pc' = "resolved"
    /\ metrics' = m
    /\ testResults' = tr
    /\ armed' = timers
    /\ UNCHANGED i

\* Lines 57-60: an error reached the catch of runPerformanceTest, whose
\* promise rejects with "Failed to run performance test...".
Reject(tr, timers) ==
    /\ pc' = "rejected"
    /\ testResults' = tr
    /\ armed' = timers
    /\ UNCHANGED <<i, metrics>>

\* The end of a direct probe: its return value, or the error it threw.
Return(throws, m, tr, timers) ==
    IF throws THEN Reject(tr, timers) ELSE Resolve(m, tr, timers)

\* Line 122, the head of the API loop with index ix: request ix is issued
\* with its 10 s abort timer (lines 127-138), or the loop is over and the
\* metrics are returned (lines 174-247).
ApiLoop(tr, ix, timers) ==
    IF ix < RequestsToMake
    THEN /\ pc' = "api_fetch"
         /\ i' = ix
         /\ armed' = timers \cup {"api"}
         /\ testResults' = tr
         /\ UNCHANGED metrics
    ELSE \E seed \in Seeds :
             Return(ProbeMetricsThrows(tr, config), ApiMetrics(tr, config, seed),
                    tr, timers)

\* Line 296, the head of the follow-up loop with index ix: the fetch of
\* lines 299-302 has no signal and no timer.
WebLoop(tr, ix, timers) ==
    IF ix < 5
    THEN /\ pc' = "web_iter"
         /\ i' = ix
         /\ armed' = timers
         /\ testResults' = tr
         /\ UNCHANGED metrics
    ELSE \E seed \in Seeds :
             Return(ProbeMetricsThrows(tr, config), FallbackMetrics(tr, config, seed),
                    tr, timers)

\* fallbackWebTest up to its first await, lines 252-276
StartFallback(timers) ==
    /\ pc' = "web_fetch"
    /\ i' = 0
    /\ armed' = timers \cup {"web"}
    /\ testResults' = EmptyResults
    /\ UNCHANGED metrics

\* The variables of the other specifications stay as they are.
AuditFrame == UNCHANGED <<ddpVars, uiVars, fnVars, revision>>

RunFrame == AuditFrame /\ UNCHANGED auditData

RunPerformanceTest_SkipAudit ==
    /\ RunFrame
    /\ pc = "called"
    /\ IF isApiEndpoint(config.url)
       THEN /\ ApiLoop(EmptyResults, 0, armed)
            /\ stages' = <<"api">>
       ELSE /\ StartFallback(armed)
            /\ stages' = <<"probe">>
    /\ UNCHANGED <<config, base, faults>>

\* Lines 30-56 and, by the target, 105-138 or 66-78
RunPerformanceTest ==
    /\ RunFrame
    /\ pc = "called"
    /\ IF isApiEndpoint(config.url)
       THEN /\ ApiLoop(EmptyResults, 0, armed)
            /\ stages' = <<"api">>
       ELSE /\ pc' = "audit_fetch"
            /\ armed' = armed \cup {"audit"}
            /\ stages' = <<"audit">>
            /\ UNCHANGED <<i, testResults, metrics>>
    /\ UNCHANGED <<config, base, faults>>

AuditFailed_Rethrown ==
    /\ Reject(testResults, armed \ {"audit"})
    /\ stages' = Append(stages, "audit-failed")
    /\ UNCHANGED <<config, base, faults>>

\* Lines 95-98 and 51-54: the audit stage threw, its catch clears the timer
\* and rethrows, and runPerformanceTest falls back to the direct website probe.
AuditFailed ==
    /\ StartFallback(armed \ {"audit"})
    /\ stages' = stages \o <<"audit-failed", "probe">>
    /\ UNCHANGED <<config, base, faults>>

AuditResponds_KeepsTimer(ok) ==
    /\ RunFrame
    /\ pc = "audit_fetch"
    /\ IF ok
       THEN /\ pc' = "audit_json"
            /\ UNCHANGED <<armed, i, testResults, metrics, stages, config, base, faults>>
       ELSE AuditFailed

\* Lines 78-85: the provider answered; a non-2xx status throws
AuditResponds(ok) ==
    /\ RunFrame
    /\ pc = "audit_fetch"
    /\ IF ok
       THEN /\ pc' = "audit_json"
            /\ armed' = armed \ {"audit"}
            /\ UNCHANGED <<i, testResults, metrics, stages, config, base, faults>>
       ELSE AuditFailed

\* Line 78 rejects: network error
AuditThrows ==
    /\ RunFrame
    /\ pc = "audit_fetch"
    /\ AuditFailed

\* Line 75: the 30 s timer fires and aborts the fetch
AuditTimesOut ==
    /\ RunFrame
    /\ pc = "audit_fetch"
    /\ "audit" \in armed
    /\ AuditFailed

\* Lines 85-94: response.json() resolved with data
AuditBodyArrives(data) ==
    /\ AuditFrame
    /\ pc = "audit_json"
    /\ auditData' = data
    /\ IF data.error \/ ProcessThrows(data)
       THEN AuditFailed
       ELSE /\ \E seed \in Seeds :
                  Resolve(processLighthouseData(data, config, seed), testResults, armed)
            /\ stages' = Append(stages, "audit-ok")
            /\ UNCHANGED <<config, base, faults>>

\* Line 85 rejects: the body is not JSON
AuditBodyUnreadable ==
    /\ RunFrame
    /\ pc = "audit_json"
    /\ AuditFailed

ApiFetchResponds_NoDelay(o) ==
    /\ RunFrame
    /\ pc = "api_fetch"
    /\ Allowed(o)
    /\ ApiLoop(ApiRecordResponse(testResults, o), i + 1, armed \ {"api"})
    /\ faults' = Spend(o)
    /\ UNCHANGED <<stages, config, base>>

\* Lines 132-159: API request i is answered
ApiFetchResponds(o) ==
    /\ RunFrame
    /\ pc = "api_fetch"
    /\ Allowed(o)
    /\ pc' = "api_delay"
    /\ armed' = armed \ {"api"}
    /\ testResults' = ApiRecordResponse(testResults, o)
    /\ faults' = Spend(o)
    /\ UNCHANGED <<i, metrics, stages, config, base>>

\* Line 159: the 100 ms pause is over
ApiDelayElapsed ==
    /\ RunFrame
    /\ pc = "api_delay"
    /\ ApiLoop(testResults, i + 1, armed)
    /\ UNCHANGED <<stages, config, base, faults>>

\* Lines 160-168: API request i rejects
ApiFetchThrows ==
    /\ RunFrame
    /\ pc = "api_fetch"
    /\ Allowed(FailOutcome)
    /\ ApiLoop(ApiRecordFailure(testResults), i + 1, armed \ {"api"})
    /\ faults' = Spend(FailOutcome)
    /\ UNCHANGED <<stages, config, base>>

\* Line 128: the 10 s timer fires and aborts API request i
ApiFetchTimesOut ==
    /\ RunFrame
    /\ pc = "api_fetch"
    /\ "api" \in armed
    /\ Allowed(FailOutcome)
    /\ ApiLoop(ApiRecordFailure(testResults), i + 1, armed \ {"api"})
    /\ faults' = Spend(FailOutcome)
    /\ UNCHANGED <<stages, config, base>>

\* Lines 272-296: the first website fetch is answered
WebFetchResponds(o) ==
    /\ RunFrame
    /\ pc = "web_fetch"
    /\ Allowed(o)
    /\ WebLoop(WebRecordFirst(testResults, o), 0, armed \ {"web"})
    /\ faults' = Spend(o)
    /\ UNCHANGED <<stages, config, base>>

WebFetchFailed_NoConstants ==
    /\ \E seed \in Seeds :
           LET tr == [WebRecordFirstFailure(testResults) EXCEPT
                         !.loadTimes = <<>>, !.latencies = <<>>]
           IN  Return(ProbeMetricsThrows(tr, config),
                      FallbackMetrics(tr, config, seed), tr, armed \ {"web"})
    /\ stages' = stages \o <<"probe-failed", "constants">>
    /\ faults' = Spend(FailOutcome)
    /\ UNCHANGED <<config, base>>

\* Lines 325-335 and 347-411: the first website fetch rejects; the
\* constant sample sets are substituted and the metrics returned
WebFetchFailed ==
    /\ \E seed \in Seeds :
           LET tr == WebRecordFirstFailure(testResults)
           IN  Return(ProbeMetricsThrows(tr, config),
                      FallbackMetrics(tr, config, seed), tr, armed \ {"web"})
    /\ stages' = stages \o <<"probe-failed", "constants">>
    /\ faults' = Spend(FailOutcome)
    /\ UNCHANGED <<config, base>>

WebFetchThrows ==
    /\ RunFrame
    /\ pc = "web_fetch"
    /\ Allowed(FailOutcome)
    /\ WebFetchFailed

\* Line 269: the 30 s timer fires and aborts the first website fetch
WebFetchTimesOut ==
    /\ RunFrame
    /\ pc = "web_fetch"
    /\ "web" \in armed
    /\ Allowed(FailOutcome)
    /\ WebFetchFailed

\* Lines 299-317: follow-up fetch i is answered
WebIterationResponds(o) ==
    /\ RunFrame
    /\ pc = "web_iter"
    /\ Allowed(o)
    /\ pc' = "web_delay"
    /\ testResults' = WebRecordIteration(testResults, o)
    /\ faults' = Spend(o)
    /\ UNCHANGED <<i, armed, metrics, stages, config, base>>

\* Line 317: the 200 ms pause is over
WebDelayElapsed ==
    /\ RunFrame
    /\ pc = "web_delay"
    /\ WebLoop(testResults, i + 1, armed)
    /\ UNCHANGED <<stages, config, base, faults>>

\* Lines 318-323: follow-up fetch i rejects
WebIterationThrows ==
    /\ RunFrame
    /\ pc = "web_iter"
    /\ Allowed(FailOutcome)
    /\ WebLoop(WebRecordIterationError(testResults), i + 1, armed)
    /\ faults' = Spend(FailOutcome)
    /\ UNCHANGED <<stages, config, base>>

\* No pure function is being called.
NoResult == [name |-> "none"]

FnIdle ==
    /\ fnCall = [name |-> "idle"]
    /\ fnResult = NoResult

ResampleIdle ==
    /\ ddpData = <<>>
    /\ ddpTargetPoints = 1
    /\ ddpResult = <<>>
    /\ ddpPc = "idle"

\* null, where the other values are strings
Null == "<null>"

\* timeRemaining === null
NoTime == 0 - 1

\* testConfig === null
NoConfig == [url |-> <<>>, users |-> 0, duration |-> 0]

\* The form and the page as mounted: the useState initial values of
\* TestForm.tsx lines 23-28 and Index.tsx (part_002) lines 14-20.
UiMounted ==
    /\ url = Str_empty
    /\ urlError = Null
    /\ isApiEndpointState = FALSE
    /\ duration = 30
    /\ testStarted = FALSE
    /\ isLoading = FALSE
    /\ testConfig = NoConfig
    /\ timer = 0
    /\ timeRemaining = NoTime
    /\ performanceMetrics = 0
    /\ testError = Null
    /\ runs = <<>>
    /\ intervals = {}
    /\ event = [name |-> "mount", onStartTest |-> FALSE]

Init ==
    /\ config \in RunConfigs
    /\ pc = "called"
    /\ i = 0
    /\ armed = {}
    /\ testResults = EmptyResults
    /\ metrics = NoMetrics
    /\ stages = <<>>
    /\ base \in Outcomes
    /\ faults = 0
    /\ auditData = NoAuditData
    /\ revision = Later
    /\ ResampleIdle
    /\ UiMounted
    /\ FnIdle

Next ==
    \/ RunPerformanceTest
    \/ \E ok \in BOOLEAN : AuditResponds(ok)
    \/ AuditThrows
    \/ AuditTimesOut
    \/ \E data \in AuditBodies : AuditBodyArrives(data)
    \/ AuditBodyUnreadable
    \/ \E o \in ResponseOutcomes : ApiFetchResponds(o)
    \/ ApiDelayElapsed
    \/ ApiFetchThrows
    \/ ApiFetchTimesOut
    \/ \E o \in ResponseOutcomes : WebFetchResponds(o)
    \/ WebFetchThrows
    \/ WebFetchTimesOut
    \/ \E o \in ResponseOutcomes : WebIterationResponds(o)
    \/ WebDelayElapsed
    \/ WebIterationThrows

Spec == Init /\ [][Next]_vars

----------------------------------------------------------------------------
(* Claims about one run, checked under Spec *)

Finished == pc \in {"resolved", "rejected"}

\* The outbound call the run is waiting on, if any.
AwaitingCall == pc \in {"audit_fetch", "audit_json", "api_fetch", "web_fetch", "web_iter"}

(* C1: whatever the audit provider and the target do, the promise of       *)
(* runPerformanceTest never rejects, and when it has settled it has        *)
(* resolved with a PerformanceMetrics object.                              *)
C1_NeverRejects ==
    /\ pc /= "rejected"
    /\ pc = "resolved" =>
           /\ metrics /= NoMetrics
           /\ Len(metrics.loadTime) > 0
           /\ Len(metrics.latency) > 0

\* The last fallback stage was reached and the run resolved.
C1_Witness ==
    /\ pc = "resolved"
    /\ stages = <<"audit", "audit-failed", "probe", "probe-failed", "constants">>
    /\ metrics /= NoMetrics

(* C2: for a target that is not API-like the stages are tried in the order *)
(* page audit, direct website probe, fallback constants: the probe starts  *)
(* only after the audit stage failed, the constants are substituted only   *)
(* after the probe's first fetch failed, and nothing starts after a stage  *)
(* succeeded.                                                              *)
C2_StageOrder ==
    ~isApiEndpoint(config.url) =>
        /\ \A k \in 1..Len(stages) :
               /\ stages[k] = "audit" => k = 1
               /\ stages[k] = "probe" => k = 3 /\ stages[2] = "audit-failed"
               /\ stages[k] = "constants" => k = 5 /\ stages[4] = "probe-failed"
               /\ stages[k] = "audit-ok" => k = Len(stages)
               /\ stages[k] /= "api"
        /\ pc \in {"web_fetch", "web_iter", "web_delay"} =>
               Len(stages) = 3 /\ stages[3] = "probe"
        /\ testResults.loadTimes = FallbackLoadTimes =>
               Len(stages) = 5 /\ stages[4] = "probe-failed"
        /\ (pc = "resolved" /\ stages[Len(stages)] = "audit-ok") =>
               testResults = EmptyResults
        /\ (pc = "resolved" /\ stages[Len(stages)] = "probe") =>
               testResults.loadTimes /= FallbackLoadTimes

\* The probe ran to its end after a failed audit, without the constants.
C2_Witness ==
    /\ pc = "resolved"
    /\ stages = <<"audit", "audit-failed", "probe">>
    /\ Len(testResults.loadTimes) = 6

(* C3: every outbound request of a run is guarded by its own timeout, so   *)
(* that a call that never answers cannot keep the run from completing:     *)
(* while the run waits on an outbound call, an abort timer is armed.       *)
C3_EveryCallGuarded == AwaitingCall => armed /= {}

(* C7: in every returned PerformanceMetrics each of loadTime, latency,     *)
(* errorRate and requestsPerSecond has exactly min(duration, 20) points.   *)
C7_SeriesLengths ==
    pc = "resolved" =>
        /\ Len(metrics.loadTime) = Min(config.duration, 20)
        /\ Len(metrics.latency) = Min(config.duration, 20)
        /\ Len(metrics.errorRate) = Min(config.duration, 20)
        /\ Len(metrics.requestsPerSecond) = Min(config.duration, 20)

\* A run longer than 20 s whose series are capped at 20 points.
C7_Witness ==
    /\ pc = "resolved"
    /\ config.duration = 30
    /\ stages = <<"audit", "audit-failed", "probe">>
    /\ Len(metrics.loadTime) = 20
    /\ Len(metrics.requestsPerSecond) = 20

----------------------------------------------------------------------------
(* SpecResample: distributeDataPoints applied to every sample sequence of  *)
(* at most MaxSamples values of SampleValues and every target point count  *)
(* of 1..MaxTargetPoints.                                                  *)

MaxSamples == 4

MaxTargetPoints == 5

SampleValues == {0, 120 * SCALE, 5000 * SCALE}

SampleSeqs == UNION {[1..n -> SampleValues] : n \in 0..MaxSamples}

RunIdle ==
    /\ config = [url |-> Str_empty, users |-> 1, duration |-> 5]
    /\ pc = "idle"
    /\ i = 0
    /\ armed = {}
    /\ testResults = EmptyResults
    /\ metrics = NoMetrics
    /\ stages = <<>>
    /\ base = FailOutcome
    /\ faults = 0
    /\ auditData = NoAuditData
    /\ revision = Later

\* Longer sample sequences, as the API probe collects them: n samples
\* 1 ms, 2 ms, ..., n ms.
Ramp(n) == [k \in 1..n |-> k * SCALE]

LongLengths == {6, 25, 55, 90}

LongTargets == {5, 11, 20}

ResampleInit ==
    /\ RunIdle
    /\ UiMounted
    /\ FnIdle
    /\ \/ /\ ddpData \in SampleSeqs
          /\ ddpTargetPoints \in 1..MaxTargetPoints
       \/ /\ ddpData \in {Ramp(n) : n \in LongLengths}
          /\ ddpTargetPoints \in LongTargets
    /\ ddpResult = <<>>
    /\ ddpPc = "input"

CallDistribute ==
    /\ ddpPc = "input"
    /\ ddpResult' = distributeDataPoints(ddpData, ddpTargetPoints)
    /\ ddpPc' = "returned"
    /\ UNCHANGED <<ddpData, ddpTargetPoints>>
    /\ UNCHANGED <<runVars, uiVars, fnVars>>

ResampleNext == CallDistribute

SpecResample == ResampleInit /\ [][ResampleNext]_vars

----------------------------------------------------------------------------
(* C8: for every sample sequence of length L >= 0 and every target point   *)
(* count T >= 1, distributeDataPoints returns exactly T entries, none of   *)
(* them undefined.                                                         *)
C8_LengthIsTarget ==
    ddpPc = "returned" =>
        /\ Len(ddpResult) = ddpTargetPoints
        /\ \A k \in 1..Len(ddpResult) : ddpResult[k] /= Undefined

\* The four cases of C8 each occur: the witness is the subsampling case.
C8_Witness ==
    /\ ddpPc = "returned"
    /\ Len(ddpData) > ddpTargetPoints
    /\ Len(ddpResult) = ddpTargetPoints

(* C9: distributeDataPoints([a], T) is T copies of a, for every a and      *)
(* every T >= 1.                                                           *)
C9_SingleSampleCopies ==
    (ddpPc = "returned" /\ Len(ddpData) = 1) =>
        ddpResult = [k \in 1..ddpTargetPoints |-> ddpData[1]]

C9_Witness ==
    /\ ddpPc = "returned"
    /\ Len(ddpData) = 1
    /\ ddpData[1] /= 0
    /\ ddpTargetPoints >= 3
    /\ ddpResult = [k \in 1..ddpTargetPoints |-> ddpData[1]]

----------------------------------------------------------------------------
(* SpecTally: runs taken up where a source is about to finish.  An API     *)
(* probe waits for its last answer after a target that answered the        *)
(* earlier requests with up to MaxLabels further statuses; a website probe *)
(* waits for its last follow-up answer; an audit waits for its body.       *)

MaxLabels == 11

MaxRepeat == 2

TallyUsers == {20, 32}

TallyDuration == 30

\* The j-th further status a target answers with.
TallyStatus(j) == 400 + j

\* The answers to the first n requests: labels statuses c times each, and
\* 200 for the rest.
TallyAnswers(n, labels, c) ==
    [k \in 1..n |->
        [kind |-> "response",
         status |-> IF k <= labels * c THEN TallyStatus(((k - 1) \div c) + 1) ELSE 200,
         ms |-> 120]]

\* testResults of runApiEndpointTest after these answers (lines 140-156)
RECURSIVE ApiReplay(_)
ApiReplay(answers) ==
    IF answers = <<>> THEN EmptyResults
    ELSE ApiRecordResponseOf(Later, ApiReplay(SubSeq(answers, 1, Len(answers) - 1)),
                             answers[Len(answers)])

\* testResults of fallbackWebTest after these answers (lines 279-315)
RECURSIVE WebReplay(_)
WebReplay(answers) ==
    IF Len(answers) = 1 THEN WebRecordFirst(EmptyResults, answers[1])
    ELSE WebRecordIteration(WebReplay(SubSeq(answers, 1, Len(answers) - 1)),
                            answers[Len(answers)])

TallyApiInit ==
    /\ config \in [url : {Str_apiPath}, users : TallyUsers, duration : {TallyDuration}]
    /\ pc = "api_fetch"
    /\ i = requestsToMake(config.users, config.duration) - 1
    /\ armed = {"api"}
    /\ \E labels \in 0..MaxLabels, c \in 1..MaxRepeat :
           /\ labels * c <= i
           /\ testResults = ApiReplay(TallyAnswers(i, labels, c))
    /\ stages = <<"api">>
    /\ faults = MaxFaults

TallyWebInit ==
    /\ config \in [url : {Str_siteHttps}, users : RunUsers, duration : RunDurations]
    /\ pc = "web_iter"
    /\ i = 4
    /\ armed = {}
    /\ \E labels \in 0..Min(MaxLabels, 5) :
           testResults = WebReplay(TallyAnswers(5, labels, 1))
    /\ stages = <<"audit", "audit-failed", "probe">>
    /\ faults = MaxFaults

TallyAuditInit ==
    /\ config \in [url : {Str_siteHttps}, users : RunUsers, duration : RunDurations]
    /\ pc = "audit_json"
    /\ i = 0
    /\ armed = {}
    /\ testResults = EmptyResults
    /\ stages = <<"audit">>
    /\ faults = 0

\* The slider of TestForm.tsx lines 181-187: 5 to 120 in steps of 5
UIRange == {5 * k : k \in 1..24}

\* The website probe waits for the answer to its first fetch.
TallyFetchInit ==
    /\ config \in [url : {Str_siteHttps}, users : {DefaultUsers}, duration : UIRange]
    /\ pc = "web_fetch"
    /\ i = 0
    /\ armed = {"web"}
    /\ testResults = EmptyResults
    /\ stages = <<"audit", "audit-failed", "probe">>
    /\ faults = MaxFaults

TestTypes == {"load", "endurance", "stress"}

\* The earlier results panel (part_003 line 36) is about to build its
\* simulated summary.
TallyMockInit ==
    /\ RunIdle
    /\ fnCall \in [name : {"generateSummaryData"}, testType : TestTypes,
                   users : RunUsers \cup {DefaultUsers}, duration : RunDurations]
    /\ fnResult = NoResult

TallyInit ==
    /\ revision = Later
    /\ \/ /\ \/ TallyApiInit
             \/ TallyWebInit
             \/ TallyAuditInit
             \/ TallyFetchInit
          /\ metrics = NoMetrics
          /\ base \in Outcomes
          /\ auditData = NoAuditData
          /\ FnIdle
       \/ TallyMockInit
    /\ ResampleIdle
    /\ UiMounted

\* part_003 line 36: generateSummaryData(testType, duration, users)
GenerateSummaryData ==
    /\ fnCall.name = "generateSummaryData"
    /\ fnResult = NoResult
    /\ \E seed \in Seeds :
           fnResult' = [name |-> "summary",
                        summary |-> generateSummaryData(fnCall.testType, fnCall.duration,
                                                        fnCall.users, seed)]
    /\ UNCHANGED <<runVars, ddpVars, uiVars, fnCall>>

TallyNext ==
    \/ \E data \in AuditBodies : AuditBodyArrives(data)
    \/ \E o \in ResponseOutcomes : ApiFetchResponds(o)
    \/ ApiDelayElapsed
    \/ ApiFetchThrows
    \/ ApiFetchTimesOut
    \/ \E o \in ResponseOutcomes : WebFetchResponds(o)
    \/ WebFetchThrows
    \/ WebFetchTimesOut
    \/ \E o \in ResponseOutcomes : WebIterationResponds(o)
    \/ WebDelayElapsed
    \/ WebIterationThrows
    \/ GenerateSummaryData

SpecTally == TallyInit /\ [][TallyNext]_vars

----------------------------------------------------------------------------
(* C10: the percentages of statusCodes of every returned PerformanceMetrics *)
(* sum to 100 within 0.5, on the API probe, the website probe and the page  *)
(* audit, for every tally of status codes.                                  *)
C10_StatusPercentagesSum ==
    pc = "resolved" =>
        /\ SumValues(metrics.statusCodes) >= 100 * SCALE - SCALE \div 2
        /\ SumValues(metrics.statusCodes) <= 100 * SCALE + SCALE \div 2

----------------------------------------------------------------------------
(* new URL(input) without a base, as the form uses it: the scheme, the     *)
(* host of a special scheme and the failures of the URL parser.  Ports,    *)
(* credentials and percent-encoding are left out: no input has them.       *)

\* " "
Str_space ==
    <<" ">>

\* "http://exa mple.com"
Str_httpSpace ==
    <<"h", "t", "t", "p", ":", "/", "/", "e", "x", "a", " ", "m", "p",
      "l", "e", ".", "c", "o", "m">>

\* "http:example.com"
Str_httpNoSlashes ==
    <<"h", "t", "t", "p", ":", "e", "x", "a", "m", "p", "l", "e", ".",
      "c", "o", "m">>

\* "mailto:a@example.com"
Str_mailto ==
    <<"m", "a", "i", "l", "t", "o", ":", "a", "@", "e", "x", "a", "m",
      "p", "l", "e", ".", "c", "o", "m">>

\* "http"
Scheme_http ==
    <<"h", "t", "t", "p">>

\* "https"
Scheme_https ==
    <<"h", "t", "t", "p", "s">>

\* "ftp"
Scheme_ftp ==
    <<"f", "t", "p">>

\* "ws"
Scheme_ws ==
    <<"w", "s">>

\* "wss"
Scheme_wss ==
    <<"w", "s", "s">>

\* "file"
Scheme_file ==
    <<"f", "i", "l", "e">>

Digits == <<"0", "1", "2", "3", "4", "5", "6", "7", "8", "9">>

IsAlpha(c) == \E k \in 1..26 : UpperCase[k] = c \/ LowerCase[k] = c

IsSchemeChar(c) ==
    \/ IsAlpha(c)
    \/ \E k \in 1..10 : Digits[k] = c
    \/ c \in {"+", "-", "."}

\* Leading and trailing spaces are stripped before parsing.
RECURSIVE TrimSpaces(_)
TrimSpaces(s) ==
    IF s = <<>> THEN s
    ELSE IF s[1] = " " THEN TrimSpaces(Tail(s))
    ELSE IF s[Len(s)] = " " THEN TrimSpaces(SubSeq(s, 1, Len(s) - 1))
    ELSE s

\* The index of the first c in s, 0 without one.
IndexOf(s, c) ==
    IF \E k \in 1..Len(s) : s[k] = c
    THEN CHOOSE k \in 1..Len(s) : s[k] = c /\ \A j \in 1..(k - 1) : s[j] /= c
    ELSE 0

\* The scheme of the input in lower case, <<>> when the input has none.
UrlScheme(s) ==
    LET t == TrimSpaces(s)
        colon == IndexOf(t, ":")
    IN  IF /\ colon > 1
           /\ IsAlpha(t[1])
           /\ \A k \in 2..(colon - 1) : IsSchemeChar(t[k])
        THEN ToLowerCase(SubSeq(t, 1, colon - 1))
        ELSE <<>>

SpecialSchemes ==
    {Scheme_http, Scheme_https, Scheme_ftp, Scheme_ws, Scheme_wss, Scheme_file}

\* What follows the scheme and its colon.
AfterScheme(s) ==
    LET t == TrimSpaces(s)
    IN  SubSeq(t, IndexOf(t, ":") + 1, Len(t))

RECURSIVE SkipSlashes(_)
SkipSlashes(s) ==
    IF s /= <<>> /\ s[1] \in {"/", "\\"} THEN SkipSlashes(Tail(s)) ELSE s

\* The characters up to the first path, query or fragment delimiter.
RECURSIVE UpToDelimiter(_)
UpToDelimiter(s) ==
    IF s = <<>> \/ s[1] \in {"/", "\\", "?", "#"} THEN <<>>
    ELSE <<s[1]>> \o UpToDelimiter(Tail(s))

ForbiddenHostChars == {" ", "<", ">", "^", "|"}

HasForbiddenHostChar(host) == \E k \in 1..Len(host) : host[k] \in ForbiddenHostChars

\* new URL(s) returns (TRUE) or throws a TypeError (FALSE).
ParsesAsUrl(s) ==
    LET scheme == UrlScheme(s)
        rest == AfterScheme(s)
    IN  IF scheme = <<>> THEN FALSE
        ELSE IF scheme \in SpecialSchemes
        THEN LET host == UpToDelimiter(SkipSlashes(rest))
             IN  /\ (host /= <<>> \/ scheme = Scheme_file)
                 /\ ~HasForbiddenHostChar(host)
        ELSE IF Len(rest) >= 2 /\ rest[1] = "/" /\ rest[2] = "/"
        THEN ~HasForbiddenHostChar(UpToDelimiter(SubSeq(rest, 3, Len(rest))))
        ELSE TRUE

----------------------------------------------------------------------------
(* The form, TestForm.tsx, and the page, Index.tsx (part_002).             *)
(* runs[r] is call r of runPerformanceTest: its config and its progress,   *)
(* "pending" until the promise settles, then "counting" (the countdown     *)
(* interval r was set), "completed" (completeTest ran) or "failed".        *)

MaxRuns == 2

UIDurations == {5, 10}

UrlInputs ==
    {Str_empty, Str_space, Str_notAUrl, Str_noScheme, Str_httpOnly, Str_httpSpace,
     Str_httpNoSlashes, Str_ftp, Str_mailto, Str_httpx, Str_upperScheme,
     Str_siteHttps, Str_apiPath, Str_service}

PrefixMessage == "URL must start with http:// or https://"

InvalidMessage == "Please enter a valid URL"

EmptyMessage == "Please enter a URL"

\* part_001 line 59 and the default of part_002 line 64
RejectMessage == "Failed to run performance test. Please try again with a different URL."

DefaultRejectMessage == "Failed to run performance test"

\* TestForm.tsx lines 49-53: the form's own API rule
FormIsApi(s) ==
    \/ Includes(s, Sub_api)
    \/ Includes(s, Sub_json)
    \/ Includes(s, Sub_graphql)
    \/ Includes(ToLowerCase(s), Sub_endpoint)
    \/ Includes(ToLowerCase(s), Sub_service)

\* The render branches of part_002 lines 118-169
Panel ==
    IF isLoading THEN "loading"
    ELSE IF testError /= Null THEN "error"
    ELSE IF ~testStarted THEN "ready"
    ELSE "results"

validateUrl_PrefixOnly(urlToTest) ==
    IF ~StartsWith(urlToTest, Sub_http) THEN PrefixMessage ELSE Null

\* validateUrl, TestForm.tsx lines 62-77: the message it sets, Null when it
\* returns true.
validateUrl(urlToTest) ==
    IF ~ParsesAsUrl(urlToTest) THEN InvalidMessage
    ELSE IF ~StartsWith(urlToTest, Sub_http) THEN PrefixMessage
    ELSE Null

\* handleUrlChange, TestForm.tsx lines 31-60
HandleUrlChange(newUrl) ==
    /\ url' = newUrl
    /\ IF newUrl /= Str_empty /\ ~StartsWith(newUrl, Sub_http)
       THEN /\ urlError' = PrefixMessage
            /\ UNCHANGED isApiEndpointState
       ELSE IF newUrl /= Str_empty /\ ~ParsesAsUrl(newUrl)
       THEN /\ urlError' = InvalidMessage
            /\ UNCHANGED isApiEndpointState
       ELSE /\ urlError' = Null
            /\ isApiEndpointState' = FormIsApi(newUrl)
    /\ event' = [name |-> "handleUrlChange", onStartTest |-> FALSE]
    /\ UNCHANGED <<duration, pageVars, runVars, ddpVars, fnVars>>

\* The duration slider, TestForm.tsx line 187
HandleDurationChange(value) ==
    /\ value /= duration
    /\ duration' = value
    /\ event' = [name |-> "handleDurationChange", onStartTest |-> FALSE]
    /\ UNCHANGED <<url, urlError, isApiEndpointState, pageVars, runVars, ddpVars, fnVars>>

\* handleStartTest of the page up to its await, part_002 lines 29-45
OnStartTest(cfg) ==
    /\ isLoading' = TRUE
    /\ testConfig' = cfg
    /\ timeRemaining' = cfg.duration
    /\ testError' = Null
    /\ runs' = Append(runs, [config |-> cfg, state |-> "pending"])
    /\ UNCHANGED <<testStarted, timer, performanceMetrics, intervals>>

\* handleStartTest of the form, TestForm.tsx lines 79-103, with the
\* onStartTest it calls
HandleStartTest ==
    /\ IF url = Str_empty
       THEN /\ urlError' = EmptyMessage
            /\ event' = [name |-> "handleStartTest", onStartTest |-> FALSE]
            /\ UNCHANGED pageVars
       ELSE IF validateUrl(url) /= Null
       THEN /\ urlError' = validateUrl(url)
            /\ event' = [name |-> "handleStartTest", onStartTest |-> FALSE]
            /\ UNCHANGED pageVars
       ELSE /\ Len(runs) < MaxRuns
            /\ OnStartTest([url |-> url, users |-> DefaultUsers, duration |-> duration])
            /\ event' = [name |-> "handleStartTest", onStartTest |-> TRUE]
            /\ UNCHANGED urlError
    /\ UNCHANGED <<url, isApiEndpointState, duration, runVars, ddpVars, fnVars>>

\* setTimer(id) with the cleanup of the effect of part_002 lines 22-27: the
\* interval held in timer before is cleared.
SetTimer(id, running) ==
    /\ timer' = id
    /\ intervals' = IF timer /= 0 /\ timer /= id THEN running \ {timer} ELSE running

ServiceResolves_ShowsAtOnce(r) ==
    /\ r \in 1..Len(runs)
    /\ runs[r].state = "pending"
    /\ performanceMetrics' = r
    /\ isLoading' = FALSE
    /\ testStarted' = TRUE
    /\ SetTimer(r, intervals \cup {r})
    /\ runs' = [runs EXCEPT ![r].state = "counting"]
    /\ event' = [name |-> "resolved", onStartTest |-> FALSE]
    /\ UNCHANGED <<testConfig, timeRemaining, testError>>
    /\ UNCHANGED <<formVars, runVars, ddpVars, fnVars>>

\* part_002 lines 45-60: the promise of run r resolved
ServiceResolves(r) ==
    /\ r \in 1..Len(runs)
    /\ runs[r].state = "pending"
    /\ performanceMetrics' = r
    /\ SetTimer(r, intervals \cup {r})
    /\ runs' = [runs EXCEPT ![r].state = "counting"]
    /\ event' = [name |-> "resolved", onStartTest |-> FALSE]
    /\ UNCHANGED <<testStarted, isLoading, testConfig, timeRemaining, testError>>
    /\ UNCHANGED <<formVars, runVars, ddpVars, fnVars>>

ServiceRejects_KeepsStarted(r, message) ==
    /\ r \in 1..Len(runs)
    /\ runs[r].state = "pending"
    /\ testError' = IF message /= "" THEN message ELSE DefaultRejectMessage
    /\ isLoading' = FALSE
    /\ runs' = [runs EXCEPT ![r].state = "failed"]
    /\ event' = [name |-> "rejected", onStartTest |-> FALSE]
    /\ UNCHANGED <<testStarted, testConfig, timer, timeRemaining, performanceMetrics, intervals>>
    /\ UNCHANGED <<formVars, runVars, ddpVars, fnVars>>

\* part_002 lines 62-74: the promise of run r rejected with an error whose
\* message is the given text
ServiceRejects(r, message) ==
    /\ r \in 1..Len(runs)
    /\ runs[r].state = "pending"
    /\ testError' = IF message /= "" THEN message ELSE DefaultRejectMessage
    /\ isLoading' = FALSE
    /\ testStarted' = FALSE
    /\ runs' = [runs EXCEPT ![r].state = "failed"]
    /\ event' = [name |-> "rejected", onStartTest |-> FALSE]
    /\ UNCHANGED <<testConfig, timer, timeRemaining, performanceMetrics, intervals>>
    /\ UNCHANGED <<formVars, runVars, ddpVars, fnVars>>

\* part_002 lines 49-59 and 77-94: interval r fires; at the end of the
\* countdown it clears itself and calls completeTest
IntervalTick(r) ==
    /\ r \in intervals
    /\ IF timeRemaining = NoTime \/ timeRemaining <= 1
       THEN /\ timeRemaining' = 0
            /\ isLoading' = FALSE
            /\ testStarted' = TRUE
            /\ SetTimer(0, intervals \ {r})
            /\ runs' = [runs EXCEPT ![r].state = "completed"]
            /\ event' = [name |-> "completeTest", onStartTest |-> FALSE]
       ELSE /\ timeRemaining' = timeRemaining - 1
            /\ event' = [name |-> "tick", onStartTest |-> FALSE]
            /\ UNCHANGED <<isLoading, testStarted, timer, intervals, runs>>
    /\ UNCHANGED <<testConfig, performanceMetrics, testError>>
    /\ UNCHANGED <<formVars, runVars, ddpVars, fnVars>>

----------------------------------------------------------------------------
(* SpecForm: the mounted form, edited and submitted; the submitted runs    *)
(* stay in flight.                                                         *)

FormInit ==
    /\ RunIdle
    /\ ResampleIdle
    /\ UiMounted
    /\ FnIdle

FormNext ==
    \/ \E newUrl \in UrlInputs : HandleUrlChange(newUrl)
    \/ HandleStartTest

SpecForm == FormInit /\ [][FormNext]_vars

(* C4: for every target that is empty or does not parse as an absolute URL, *)
(* handleStartTest of the form sets a URL error and does not call           *)
(* onStartTest, and the page's state is left unchanged.                     *)
C4_InvalidTargetNotStarted ==
    [][(event'.name = "handleStartTest" /\ ~ParsesAsUrl(url))
          => (urlError' /= Null /\ ~event'.onStartTest /\ UNCHANGED pageVars)]_vars

C4_Witness ==
    /\ event.name = "handleStartTest"
    /\ url = Str_notAUrl
    /\ urlError = InvalidMessage
    /\ ~event.onStartTest
    /\ runs = <<>>

(* C5: a run is started only for targets whose scheme is exactly http or   *)
(* https; every other parseable URL is rejected by the form.               *)
C5_OnlyHttpSchemes ==
    (event.name = "handleStartTest" /\ event.onStartTest)
        => UrlScheme(url) \in {Scheme_http, Scheme_https}

----------------------------------------------------------------------------
(* SpecPage: the form filled in with a target the form accepts, submitted  *)
(* up to MaxRuns times; each call of runPerformanceTest resolves or        *)
(* rejects, and the countdown intervals tick.                              *)

PageTargets == {Str_siteHttps, Str_apiPath}

PageInit ==
    /\ RunIdle
    /\ ResampleIdle
    /\ FnIdle
    /\ url \in PageTargets
    /\ urlError = Null
    /\ isApiEndpointState = FormIsApi(url)
    /\ duration \in UIDurations
    /\ testStarted = FALSE
    /\ isLoading = FALSE
    /\ testConfig = NoConfig
    /\ timer = 0
    /\ timeRemaining = NoTime
    /\ performanceMetrics = 0
    /\ testError = Null
    /\ runs = <<>>
    /\ intervals = {}
    /\ event = [name |-> "handleUrlChange", onStartTest |-> FALSE]

PageNext ==
    \/ HandleStartTest
    \/ \E value \in UIDurations : HandleDurationChange(value)
    \/ \E r \in 1..MaxRuns : ServiceResolves(r)
    \/ \E r \in 1..MaxRuns, message \in {RejectMessage, ""} : ServiceRejects(r, message)
    \/ \E r \in 1..MaxRuns : IntervalTick(r)

SpecPage == PageInit /\ [][PageNext]_vars

(* C6: when runPerformanceTest rejects, the page has isLoading false,      *)
(* testStarted false and testError set to one error string, and shows the  *)
(* error panel, not the results panel; starting a new run clears testError. *)
C6_RejectionShowsError ==
    /\ event.name = "rejected" =>
           /\ ~isLoading
           /\ ~testStarted
           /\ testError \in {RejectMessage, DefaultRejectMessage}
           /\ Panel = "error"
    /\ (event.name = "handleStartTest" /\ event.onStartTest) => testError = Null

\* A run is rejected after an earlier run resolved and completed.
C6_Witness ==
    /\ event.name = "rejected"
    /\ performanceMetrics /= 0
    /\ \E r \in 1..Len(runs) : runs[r].state = "completed"
    /\ testError /= Null
    /\ ~testStarted

----------------------------------------------------------------------------
(* C11: in every generated PerformanceMetrics, and in the simulated        *)
(* summary, successRate + errorRate is 100 within the rounding of the two  *)
(* fields to two decimals (0.01).                                          *)
C11_RatesSumTo100 ==
    /\ pc = "resolved" =>
           /\ metrics.summary.errorRate + metrics.summary.successRate >= 9999
           /\ metrics.summary.errorRate + metrics.summary.successRate <= 10001
    /\ fnResult.name = "summary" =>
           /\ fnResult.summary.errorRate + fnResult.summary.successRate >= 9999
           /\ fnResult.summary.errorRate + fnResult.summary.successRate <= 10001

\* An API probe with one error in 32 requests: 3.125 % and 96.875 % are both
\* rounded up.
C11_Witness ==
    /\ pc = "resolved"
    /\ metrics.summary.totalRequests = 32
    /\ metrics.summary.errorRate = 313
    /\ metrics.summary.successRate = 9688

----------------------------------------------------------------------------
(* SpecScores: the score formulas of the direct probes and of the page     *)
(* audit, applied to the same timings: avgLatency and the time to first    *)
(* byte are latency ms, avgLoadTime and the paint and blocking timings are *)
(* load ms.                                                                *)

ScoreTimings == {0, 36, 120, 600, 2500, 5000, 10000000}

\* errors / totalRequests * 100 for 0, 1/32, 1/2 and all of the requests
ScoreErrorRates == {0, (100 * SCALE) \div 32, 50 * SCALE, 100 * SCALE}

\* categories.performance.score of the provider, a number of [0, 1]
ProviderScores == {0, (35 * SCALE) \div 100, (92 * SCALE) \div 100, SCALE}

NoScores == [overall |-> 0 - 1, ttfb |-> 0 - 1, fcp |-> 0 - 1, lcp |-> 0 - 1, ttl |-> 0 - 1]

ScoresInit ==
    /\ RunIdle
    /\ ResampleIdle
    /\ UiMounted
    /\ fnCall \in [name : {"scores"}, latency : ScoreTimings, load : ScoreTimings,
                   errorRate : ScoreErrorRates, score : ProviderScores]
    /\ fnResult = NoResult

\* What the calls so far returned.
ScoresSoFar ==
    IF fnResult = NoResult
    THEN [name |-> "scores", probe |-> NoScores, audit |-> NoScores]
    ELSE fnResult

\* Lines 215-224 (API probe) and 379-388 (website probe)
ComputeProbeScores ==
    /\ fnCall.name = "scores"
    /\ ScoresSoFar.probe = NoScores
    /\ fnResult' = [ScoresSoFar EXCEPT
                       !.probe = ProbeScores(fnCall.load * SCALE, fnCall.latency * SCALE,
                                             fnCall.errorRate)]
    /\ UNCHANGED <<runVars, ddpVars, uiVars, fnCall>>

\* Lines 422-435 and 471-477 (page audit)
ComputeAuditScores ==
    /\ fnCall.name = "scores"
    /\ ScoresSoFar.audit = NoScores
    /\ fnResult' = [ScoresSoFar EXCEPT
                       !.audit = AuditScores(AuditBody(FALSE, TRUE, TRUE, fnCall.score,
                                                       fnCall.latency, fnCall.load,
                                                       fnCall.load, fnCall.load, 0))]
    /\ UNCHANGED <<runVars, ddpVars, uiVars, fnCall>>

ScoresNext ==
    \/ ComputeProbeScores
    \/ ComputeAuditScores

SpecScores == ScoresInit /\ [][ScoresNext]_vars

ScoreFields == {"overall", "ttfb", "fcp", "lcp", "ttl"}

(* C12: the four sub-scores and the overall score lie in [0, 100] for      *)
(* every non-negative average load time and latency, 0 and 10,000,000 ms   *)
(* included, and every error rate and provider score.                      *)
C12_ScoresInRange ==
    fnResult.name = "scores" =>
        \A f \in ScoreFields :
            /\ fnResult.probe /= NoScores =>
                   fnResult.probe[f] >= 0 /\ fnResult.probe[f] <= 100 * SCALE
            /\ fnResult.audit /= NoScores =>
                   fnResult.audit[f] >= 0 /\ fnResult.audit[f] <= 100 * SCALE

\* Both sources scored 10,000,000 ms.
C12_Witness ==
    /\ fnCall.name = "scores"
    /\ fnCall.load = 10000000
    /\ fnCall.latency = 10000000
    /\ fnResult.name = "scores"
    /\ fnResult.probe /= NoScores
    /\ fnResult.audit /= NoScores
    /\ fnResult.probe.lcp = 0
    /\ fnResult.audit.ttl = 0

(* C13: each of the five performanceScores fields of every returned        *)
(* PerformanceMetrics is an integer.                                       *)
C13_ScoresAreIntegers ==
    pc = "resolved" =>
        \A f \in ScoreFields : metrics.performanceScores[f] % SCALE = 0

(* C14: for the same latency, paint and load timings the page audit and    *)
(* the direct probes compute the same ttfb, fcp, lcp and ttl sub-scores.   *)
C14_SameSubScores ==
    (fnResult.name = "scores" /\ fnResult.probe /= NoScores /\ fnResult.audit /= NoScores)
        => \A f \in ScoreFields \ {"overall"} : fnResult.probe[f] = fnResult.audit[f]

----------------------------------------------------------------------------
\* One of /api/, .json, graphql, endpoint, service occurs in s, whatever
\* the case of its letters.
ContainsApiWord(s) ==
    \E sub \in {Sub_api, Sub_json, Sub_graphql, Sub_endpoint, Sub_service} :
        Includes(ToLowerCase(s), sub)

(* C15: a target is classified as API-like exactly when it contains one of *)
(* /api/, .json, graphql, endpoint, service, compared case-insensitively,  *)
(* by the form's flag and by the rule of runPerformanceTest alike; checked *)
(* for the targets the form submits (SpecForm).                            *)
C15_SameRuleEverywhere ==
    (event.name = "handleStartTest" /\ event.onStartTest) =>
        /\ isApiEndpointState = ContainsApiWord(url)
        /\ isApiEndpoint(url) = ContainsApiWord(url)

(* C16: the target https://api.example.com/v1/users is classified API-like *)
(* and routed to the API direct probe, not to the page audit (Spec).       *)
C16_ApiSubdomainRouted ==
    (config.url = Str_apiSubdomain /\ stages /= <<>>) =>
        /\ isApiEndpoint(config.url)
        /\ stages[1] = "api"

(* C17: the audit stage fails whenever the provider answers with an error  *)
(* payload, a non-2xx status or a body without lighthouseResult or without *)
(* audits: metrics are built from the provider's response only when the    *)
(* body has its result tree (Spec).                                        *)
C17_MalformedAuditFails ==
    (pc = "resolved" /\ stages[Len(stages)] = "audit-ok") =>
        /\ ~auditData.error
        /\ auditData.lighthouseResult
        /\ auditData.audits

----------------------------------------------------------------------------
(* C18: for a target that is not API-like, when the audit and the first    *)
(* fetch of the target both fail, the result is built from the fallback    *)
(* constants, loadTime and latency have min(duration, 20) points and       *)
(* summary.totalRequests is round(peakRps * duration), for every duration  *)
(* of the slider (SpecTally).                                              *)
C18_AllFailingUsesConstants ==
    (pc = "resolved" /\ stages[Len(stages)] = "constants") =>
        LET points == IF config.duration < 20 THEN config.duration ELSE 20
        IN  /\ Len(metrics.loadTime) = points
            /\ Len(metrics.latency) = points
            /\ \A k \in 1..points :
                   /\ metrics.loadTime[k] >= 3000 * SCALE
                   /\ metrics.loadTime[k] <= 3400 * SCALE
                   /\ metrics.latency[k] >= 800 * SCALE
                   /\ metrics.latency[k] <= 900 * SCALE
            /\ metrics.summary.totalRequests =
                   (metrics.summary.peakRps * config.duration + 50) \div 100

C18_Witness ==
    /\ pc = "resolved"
    /\ stages = <<"audit", "audit-failed", "probe", "probe-failed", "constants">>
    /\ config.duration = 30
    /\ config.users = DefaultUsers
    /\ Len(metrics.loadTime) = 20
    /\ metrics.summary.totalRequests = 1
    /\ metrics.summary.peakRps = 3

----------------------------------------------------------------------------
(* The API probe of the earlier copy of the service,                       *)
(* src/services/performanceService.ts lines 88-222: one run against an     *)
(* API-like target.                                                        *)

OlderInit ==
    /\ config \in {c \in RunConfigs : isApiEndpoint(c.url)}
    /\ pc = "called"
    /\ i = 0
    /\ armed = {}
    /\ testResults = EmptyResults
    /\ metrics = NoMetrics
    /\ stages = <<>>
    /\ base \in Outcomes
    /\ faults = 0
    /\ auditData = NoAuditData
    /\ revision = Earlier
    /\ ResampleIdle
    /\ UiMounted
    /\ FnIdle

OlderNext ==
    \/ RunPerformanceTest
    \/ \E o \in ResponseOutcomes : ApiFetchResponds(o)
    \/ ApiDelayElapsed
    \/ ApiFetchThrows
    \/ ApiFetchTimesOut

SpecOlder == OlderInit /\ [][OlderNext]_vars

(* C19: the API probe attempts exactly N = min(max(users, 20), 2 duration) *)
(* requests, whatever number of them fail or time out: no failure ends the *)
(* loop early, and summary.totalRequests of its result is N (SpecOlder).   *)
C19_ExactlyNRequests ==
    isApiEndpoint(config.url) =>
        LET N == Min(Max(config.users, 20), 2 * config.duration)
        IN  /\ testResults.totalRequests <= N
            /\ pc \in {"api_fetch", "api_delay"} => i < N
            /\ pc = "resolved" =>
                   /\ testResults.totalRequests = N
                   /\ metrics.summary.totalRequests = N

----------------------------------------------------------------------------
(* C21: after a direct probe every attempted request has contributed one   *)
(* load-time sample and one latency sample, a failed request the penalty   *)
(* sample, so the two sample sequences are as long as totalRequests and    *)
(* are not empty when they are resampled (Spec).                           *)
C21_OneSamplePerRequest ==
    (pc = "resolved" /\ (stages = <<"api">> \/ Len(stages) >= 3)) =>
        /\ Len(testResults.loadTimes) = testResults.totalRequests
        /\ Len(testResults.latencies) = testResults.totalRequests
        /\ Len(testResults.loadTimes) > 0

(* C22: at every point of a probe run, in the API probe and in the website *)
(* probe and after each of their catch branches, the error count is at     *)
(* most the request count, so the error rate derived from them lies in     *)
(* [0, 100] percent (Spec).                                                *)
C22_ErrorsAtMostRequests ==
    /\ testResults.errors >= 0
    /\ testResults.errors <= testResults.totalRequests
    /\ ErrorRate(testResults) >= 0
    /\ ErrorRate(testResults) <= 100 * SCALE
    /\ (pc = "resolved" /\ (stages = <<"api">> \/ Len(stages) >= 3)) =>
           /\ metrics.summary.errorRate >= 0
           /\ metrics.summary.errorRate <= 100 * 100

\* The website probe ended with all six of its requests counted as errors.
C22_Witness ==
    /\ pc = "resolved"
    /\ stages = <<"audit", "audit-failed", "probe">>
    /\ testResults.totalRequests = 6
    /\ testResults.errors = 6
    /\ metrics.summary.errorRate = 100 * 100

(* C23: the latency sample recorded for an answered probe request is 0.3   *)
(* times the measured load time when the target is a website, and the      *)
(* measured load time itself when the target is API-like (Spec).           *)
C23_LatencyOfAnsweredRequest ==
    \A k \in 1..Len(testResults.latencies) :
        IF isApiEndpoint(config.url)
        THEN \/ /\ testResults.loadTimes[k] = 5000 * SCALE     \* the penalty sample
                /\ testResults.latencies[k] = 1000 * SCALE
             \/ testResults.latencies[k] = testResults.loadTimes[k]
        ELSE \/ testResults.loadTimes = FallbackLoadTimes      \* the constants
             \/ testResults.latencies[k] = (testResults.loadTimes[k] * 3) \div 10

(* C24: with 1 <= L < T samples, distributeDataPoints interpolates over    *)
(* evenly spaced positions: the first output is the first sample, the last *)
(* output the last sample, and output i is the linear blend of the two     *)
(* samples that bracket position i (L - 1) / (T - 1), so it lies between   *)
(* them (SpecResample).  The blend is compared up to the resolution 1 /    *)
(* SCALE of the fixed-point values.                                        *)
C24_LinearInterpolation ==
    (ddpPc = "returned" /\ Len(ddpData) >= 1 /\ Len(ddpData) < ddpTargetPoints) =>
        /\ ddpResult[1] = ddpData[1]
        /\ ddpResult[ddpTargetPoints] = ddpData[Len(ddpData)]
        /\ \A k \in 1..ddpTargetPoints :
               LET den == ddpTargetPoints - 1
                   num == (k - 1) * (Len(ddpData) - 1)
                   below == ddpData[(num \div den) + 1]
                   above == ddpData[IF num % den = 0 THEN (num \div den) + 1
                                    ELSE (num \div den) + 2]
                   exact == below * (den - (num % den)) + above * (num % den)
               IN  /\ ddpResult[k] >= Min(below, above)
                   /\ ddpResult[k] <= Max(below, above)
                   /\ ddpResult[k] * den <= exact
                   /\ ddpResult[k] * den > exact - den

\* Two samples stretched to five points: 0, 1250, 2500, 3750 and 5000 ms.
C24_Witness ==
    /\ ddpPc = "returned"
    /\ ddpData = <<0, 5000 * SCALE>>
    /\ ddpTargetPoints = 5
    /\ ddpResult = <<0, 1250 * SCALE, 2500 * SCALE, 3750 * SCALE, 5000 * SCALE>>

(* C25: with L > T samples, distributeDataPoints returns output[i] =        *)
(* samples[floor(i L / T)] for every i in 0..T-1 (SpecResample).            *)
C25_SubsampleByFloor ==
    (ddpPc = "returned" /\ Len(ddpData) > ddpTargetPoints) =>
        \A k \in 1..ddpTargetPoints :
            ddpResult[k] = ddpData[(((k - 1) * Len(ddpData)) \div ddpTargetPoints) + 1]

----------------------------------------------------------------------------
(* C26: whenever the results panel is shown, the metrics it is given are   *)
(* those of the run that was submitted with the stored testConfig, also    *)
(* when a second run was started while the first was in flight, whatever   *)
(* the order in which the two runs resolve (SpecPage).                     *)
C26_MetricsOfStoredConfig ==
    Panel = "results" =>
        /\ performanceMetrics \in 1..Len(runs)
        /\ runs[performanceMetrics].config = testConfig

(* C27: within a single run the results panel becomes visible only after   *)
(* runPerformanceTest has resolved and its metrics are stored, and only    *)
(* after the countdown from config.duration has reached 0; the countdown   *)
(* starts only after the metrics were computed (SpecPage, the states with  *)
(* one submitted run).                                                     *)
C27_ResultsAfterCountdown ==
    Len(runs) = 1 =>
        /\ runs[1].state = "pending" =>
               /\ Panel = "loading"
               /\ intervals = {}
               /\ timeRemaining = testConfig.duration
        /\ runs[1].state = "counting" =>
               /\ Panel = "loading"
               /\ performanceMetrics = 1
               /\ timeRemaining >= 1
               /\ timeRemaining <= testConfig.duration
        /\ Panel = "results" =>
               /\ runs[1].state = "completed"
               /\ performanceMetrics = 1
               /\ timeRemaining = 0
               /\ intervals = {}

\* The only run, of 10 seconds, has completed and its results are shown.
C27_Witness ==
    /\ Len(runs) = 1
    /\ runs[1].state = "completed"
    /\ testConfig.duration = 10
    /\ Panel = "results"
    /\ performanceMetrics = 1
    /\ timeRemaining = 0

(* C28: also when runs overlap, the countdown interval of a run whose      *)
(* runPerformanceTest resolved is never cancelled by the timer bookkeeping *)
(* of another run: it stops only when its own countdown calls              *)
(* completeTest, so completeTest is called for every resolved run          *)
(* (SpecPage).                                                             *)
C28_IntervalEndsByCompleting ==
    [][\A r \in intervals \ intervals' : runs'[r].state = "completed"]_vars

----------------------------------------------------------------------------
(* C29: an abort timer is armed only while the request it guards is in     *)
(* flight: it is cancelled when that request settles, by an answer or by a *)
(* failure, so no abort fires for a settled request, at most one timer is  *)
(* armed at any moment, and none is left when the run ends (Spec).         *)
C29_TimerOnlyWhileInFlight ==
    /\ Cardinality(armed) <= 1
    /\ "audit" \in armed => pc = "audit_fetch"
    /\ "api" \in armed => pc = "api_fetch"
    /\ "web" \in armed => pc = "web_fetch"
    /\ pc \in {"resolved", "rejected"} => armed = {}

\* The audit failed, its timer is cancelled, and the timer of the first
\* fetch of the website probe is the only one armed.
C29_Witness ==
    /\ pc = "web_fetch"
    /\ stages = <<"audit", "audit-failed", "probe">>
    /\ armed = {"web"}

(* C30: summary.avgLoadTime and summary.avgLatency are in milliseconds on  *)
(* every path, like the series and the "ms" label of the results panel: on *)
(* the audit path avgLoadTime is the provider's largest-contentful-paint   *)
(* value in ms (and avgLatency its server response time), on the probe     *)
(* paths they are the means of the samples in ms (Spec).  The summary      *)
(* fields are numbers of hundredths, as toFixed(2) prints them.            *)
C30_SummaryInMilliseconds ==
    pc = "resolved" =>
        IF stages[Len(stages)] = "audit-ok"
        THEN /\ metrics.summary.avgLoadTime =
                    ToFixed2(AuditValue(auditData, auditData.largestContentfulPaint))
             /\ metrics.summary.avgLatency =
                    ToFixed2(AuditValue(auditData, auditData.serverResponseTime))
        ELSE /\ metrics.summary.avgLoadTime = ToFixed2(Average(testResults.loadTimes))
             /\ metrics.summary.avgLatency = ToFixed2(Average(testResults.latencies))

====
